---- MODULE Spec2Model ----
(***************************************************************************)
(* Model of the AssemblyAI client (src/src/assemblyai.ts) and of the       *)
(* Cloudflare Worker that routes HTTP requests to it (src/src/worker.ts,   *)
(* first variant, lines 1-49).                                             *)
(*                                                                         *)
(* Two execution contexts run side by side: the Worker's request handler   *)
(* (variables h*, req, response, ...) and a library caller that invokes    *)
(* waitForTranscript or getSubtitles (variables c*, ...).  Every           *)
(* `await fetch(...)` is split in three steps: the client issues the call, *)
(* the remote service answers, the client resumes with the answer.         *)
(***************************************************************************)
EXTENDS Integers, Sequences, FiniteSets, TLC

(***************************************************************************)
(* Values                                                                  *)
(***************************************************************************)

\* a property that is missing from a JavaScript object / a null header
undefined == "<undefined>"

\* bounds of the input sets
NumIds == 2
NumTexts == 1

\* the count of polls is kept up to MaxPolls and stays there
MaxPolls == 3

Ids == { "id" \o ToString(i) : i \in 1..NumIds }

\* transcript texts the remote service can carry ("" = not populated)
Texts == {""} \cup { "hello world " \o ToString(i) : i \in 1..NumTexts }

\* 'queued' | 'processing' | 'completed' are the statuses the client knows;
\* Transcript.status is typed `string`, so any other value can arrive
Statuses == {"queued", "processing", "completed", "throttled"}

\* values of an `error` field; "" is present but falsy
ErrorValues == {"", "invalid api key", "transcript not found"}

UploadUrls == {"https://cdn.assemblyai.com/upload/u1", "https://cdn.assemblyai.com/upload/u2"}

\* a parsed JSON body; a field the body does not have is `undefined`
JsonBody(e, u, i, s, t) ==
  [error |-> e, upload_url |-> u, id |-> i, status |-> s, text |-> t]

\* type ErrorBody = { error: string }
ErrorBody(e) == JsonBody(e, undefined, undefined, undefined, undefined)

\* type Transcript = { id, text, status }
Transcript(i, s, t) == JsonBody(undefined, undefined, i, s, t)

\* { upload_url: string }
UploadBody(u) == JsonBody(undefined, u, undefined, undefined, undefined)

\* bodies the remote can answer on the transcript endpoints for transcripts
\* of the given ids: transcripts of every status (with or without text),
\* error bodies, and a transcript that carries an error field next to its
\* status
TranscriptBodiesOf(ids) ==
  { Transcript(i, s, t) : i \in ids, s \in Statuses, t \in Texts }
    \cup { ErrorBody(e) : e \in ErrorValues }
    \cup { JsonBody("transcript not found", undefined, i, "completed", t) :
             i \in ids, t \in Texts }

TranscriptBodies == TranscriptBodiesOf(Ids)

\* bodies the remote can answer on the upload endpoint
UploadBodies ==
  { UploadBody(u) : u \in UploadUrls }
    \cup { ErrorBody(e) : e \in ErrorValues }
    \cup { JsonBody("invalid api key", u, undefined, undefined, undefined) :
             u \in UploadUrls }

\* JavaScript truthiness of a string-valued property
Truthy(v) == v # undefined /\ v # ""

\* a raised JavaScript error
JsError(n, m) == [name |-> n, message |-> m]

\* throwIfError written as `if (body.error)`: a falsy error field passes
HasErrorTruthy(body) == Truthy(body.error)

\* private static throwIfError(body): `'error' in body`
HasError(body) == body.error # undefined

\* throwIfError that raises without the server's message
ThrownErrorGeneric(body) == JsError("Error", "request failed")

\* ... throw new Error(body.error)
ThrownError(body) == JsError("Error", body.error)

(***************************************************************************)
(* State                                                                   *)
(***************************************************************************)

VARIABLES
  remote,     \* the transcript resource as the remote service holds it
  hpc,        \* Worker: position of the request handler
  req,        \* Worker: the request being handled
  hnet,       \* Worker: the remote call in flight and its answer
  uploadUrl,  \* Worker: const uploadUrl (POST /upload-file)
  calls,      \* Worker: remote calls issued while handling req, in order
  settled,    \* Worker: outcome of router.handle(req)
  response,   \* Worker: the HTTP response handed back to the host
  served,     \* Worker: a completed transcript's text was served for req.id
  cpc,        \* caller: position inside waitForTranscript / getSubtitles
  cid,        \* caller: the id argument
  cnet,       \* caller: the remote call in flight and its answer
  timer,      \* caller: delay of the pending setTimeout, 0 when none
  polls,      \* caller: polls waitForTranscript has issued in this call
  slept,      \* caller: a timer expired since the last poll was issued
  bodyUsed,   \* caller: the subtitles response body has been read
  result      \* caller: what the call returned or raised

hvars == <<hpc, req, hnet, uploadUrl, calls, settled, response, served>>
cvars == <<cpc, cid, cnet, timer, polls, slept, bodyUsed, result>>
vars == <<remote, hvars, cvars>>

EmptyBody == JsonBody(undefined, undefined, undefined, undefined, undefined)

\* a fetch() to the remote service: endpoint, argument, and the answer once
\* the service has produced it (status, content-type, raw text, parsed JSON)
Call(op, arg) ==
  [op |-> op, arg |-> arg, replied |-> FALSE,
   status |-> 0, ctype |-> undefined, raw |-> undefined, json |-> EmptyBody]

NoCall == Call("none", undefined)

\* the answer of a JSON endpoint
JsonReply(call, body) == [call EXCEPT !.replied = TRUE, !.status = 200,
                                      !.ctype = "application/json",
                                      !.json = body]

(***************************************************************************)
(* HTTP requests and responses of the Worker                               *)
(***************************************************************************)

Origin == "https://worker.example"

Request(m, r, i, form, file) ==
  [method |-> m, route |-> r, id |-> i, form |-> form, file |-> file]

NoRequest == Request("none", undefined, undefined, undefined, undefined)

\* requests that match one of the three routes; a POST body is multipart or
\* not, and a multipart body has the `file` field or not (formData.get
\* returns null)
Requests ==
  { Request("GET", "/", undefined, undefined, undefined) }
    \cup { Request("POST", "/upload-file", undefined, f, x) :
             f \in {"multipart", "malformed"}, x \in {"audio.mp3", "null"} }
    \cup { Request("GET", "/transcript/:id", i, undefined, undefined) :
             i \in Ids }

HttpResponse(k, st, b, r, l, e) ==
  [kind |-> k, status |-> st, body |-> b, refresh |-> r, location |-> l,
   error |-> e]

NoResponse == HttpResponse("none", 0, undefined, undefined, undefined, undefined)

\* html(`<!DOCTYPE html>...`)
html(b) == HttpResponse("html", 200, b, undefined, undefined, undefined)

\* text(body, { headers })
text(b, refresh) == HttpResponse("text", 200, b, refresh, undefined, undefined)

\* Response.redirect(url, 303)
redirect(url, st) == HttpResponse("redirect", st, undefined, undefined, url, undefined)

\* .catch(error): itty-router's error() turns a thrown Error into a 500
error(e) == HttpResponse("error", 500, undefined, undefined, undefined, e.message)

\* 'Refresh': '3'
RefreshDelay == "3"

\* new URL(`/transcript/${transcript.id}`, request.url).toString()
TranscriptUrl(id) == Origin \o "/transcript/" \o id

Resolved(r) == [kind |-> "resolve", response |-> r, error |-> JsError(undefined, undefined)]
Rejected(e) == [kind |-> "reject", response |-> NoResponse, error |-> e]
Pending == [kind |-> "pending", response |-> NoResponse, error |-> JsError(undefined, undefined)]

(***************************************************************************)
(* The Worker's request handler (src/src/worker.ts)                        *)
(***************************************************************************)

\* the remote calls a handler has issued, oldest first
Issued(call) == Append(calls, [op |-> call.op, arg |-> call.arg])

\* router: a request arrives and is dispatched to the handler of its route.
\* GET / answers at once; POST /upload-file awaits request.formData();
\* GET /transcript/:id calls client.getTranscript(id), which issues its fetch.
Fetch(r) ==
  /\ hpc \in {"idle", "responded"}
  /\ req' = r
  /\ response' = NoResponse
  /\ uploadUrl' = undefined
  /\ served' = (served /\ r.route # "/upload-file")
  /\ CASE r.route = "/" ->
            /\ settled' = Resolved(html("<form action=/upload-file>"))
            /\ hnet' = NoCall
            /\ calls' = <<>>
            /\ hpc' = "settle"
       [] r.route = "/upload-file" ->
            /\ settled' = Pending
            /\ hnet' = NoCall
            /\ calls' = <<>>
            /\ hpc' = "formData"
       [] r.route = "/transcript/:id" ->
            /\ settled' = Pending
            /\ hnet' = Call("getTranscript", r.id)
            /\ calls' = <<[op |-> "getTranscript", arg |-> r.id]>>
            /\ hpc' = "getTranscript"
  /\ UNCHANGED <<remote, cvars>>

\* POST /upload-file, lines 19-23: the form is parsed, the file is taken from
\* it and client.uploadFile(file) issues its fetch.  A body that is not a
\* form rejects formData(); a form without `file` makes file.stream() throw
\* before any fetch is issued.
UploadFile ==
  /\ hpc = "formData"
  /\ IF req.form # "multipart"
       THEN /\ settled' = Rejected(JsError("TypeError", "formData"))
            /\ hpc' = "settle"
            /\ UNCHANGED <<hnet, calls>>
       ELSE IF req.file = "null"
         THEN /\ settled' = Rejected(JsError("TypeError", "file is null"))
              /\ hpc' = "settle"
              /\ UNCHANGED <<hnet, calls>>
         ELSE /\ hnet' = Call("uploadFile", req.file)
              /\ calls' = Issued(hnet')
              /\ hpc' = "uploadFile"
              /\ UNCHANGED settled
  /\ UNCHANGED <<remote, req, uploadUrl, response, served, cvars>>

\* uploadFile resumes with the parsed body (lines 53-55) and, when it
\* returns, the handler calls client.createTranscript({ audio_url: uploadUrl })
\* (line 24), which issues its fetch.
CreateTranscript ==
  /\ hpc = "uploadFile"
  /\ hnet.replied
  /\ IF HasError(hnet.json)
       THEN /\ settled' = Rejected(ThrownError(hnet.json))
            /\ hpc' = "settle"
            /\ UNCHANGED <<hnet, calls, uploadUrl>>
       ELSE /\ uploadUrl' = hnet.json.upload_url
            /\ hnet' = Call("createTranscript", uploadUrl')
            /\ calls' = Issued(hnet')
            /\ hpc' = "createTranscript"
            /\ UNCHANGED settled
  /\ UNCHANGED <<remote, req, response, served, cvars>>

\* createTranscript resumes with the parsed body (lines 73-75) and the
\* handler redirects to the transcript's page (lines 26-27).
Redirect ==
  /\ hpc = "createTranscript"
  /\ hnet.replied
  /\ settled' = IF HasError(hnet.json)
                  THEN Rejected(ThrownError(hnet.json))
                  ELSE Resolved(redirect(TranscriptUrl(hnet.json.id), 303))
  /\ hpc' = "settle"
  /\ UNCHANGED <<remote, req, hnet, uploadUrl, calls, response, served, cvars>>

\* a handler that renders whatever text the transcript already has
RenderTextWhenPresent(transcript) ==
  IF transcript.status = "completed" \/ transcript.text # ""
    THEN text(transcript.text, undefined)
    ELSE text(transcript.status, RefreshDelay)

\* a handler that sends the Refresh header with the text as well
RenderAlwaysRefresh(transcript) ==
  IF transcript.status = "completed"
    THEN text(transcript.text, RefreshDelay)
    ELSE text(transcript.status, RefreshDelay)

\* GET /transcript/:id, lines 33-41: what the handler renders of a transcript
Render(transcript) ==
  IF transcript.status = "completed"
    THEN text(transcript.text, undefined)
    ELSE text(transcript.status, RefreshDelay)

\* getTranscript resumes with the parsed body (lines 89-91) and the handler
\* renders it.
GetTranscript ==
  /\ hpc = "getTranscript"
  /\ hnet.replied
  /\ settled' = IF HasError(hnet.json)
                  THEN Rejected(ThrownError(hnet.json))
                  ELSE Resolved(Render(hnet.json))
  /\ hpc' = "settle"
  /\ UNCHANGED <<remote, req, hnet, uploadUrl, calls, response, served, cvars>>

\* default.fetch without .catch(error): a rejection is never answered
SettleWithoutCatch ==
  /\ hpc = "settle"
  /\ response' = settled.response
  /\ served' = (served \/ (req.route = "/transcript/:id"
                             /\ response'.kind = "text"
                             /\ response'.refresh = undefined))
  /\ hpc' = "responded"
  /\ UNCHANGED <<remote, req, hnet, uploadUrl, calls, settled, cvars>>

\* default.fetch: router.handle(req).then(json).catch(error).  json() hands
\* a Response through unchanged; error() builds the error response.
Settle ==
  /\ hpc = "settle"
  /\ response' = IF settled.kind = "resolve"
                   THEN settled.response
                   ELSE error(settled.error)
  /\ served' = (served \/ (req.route = "/transcript/:id"
                             /\ response'.kind = "text"
                             /\ response'.refresh = undefined))
  /\ hpc' = "responded"
  /\ UNCHANGED <<remote, req, hnet, uploadUrl, calls, settled, cvars>>

(***************************************************************************)
(* waitForTranscript (src/src/assemblyai.ts, lines 99-119)                 *)
(***************************************************************************)

NoResult == [kind |-> "none", transcript |-> EmptyBody, text |-> undefined,
             error |-> JsError(undefined, undefined)]
Returned(t) == [NoResult EXCEPT !.kind = "return", !.transcript = t]
ReturnedText(x) == [NoResult EXCEPT !.kind = "return", !.text = x]
Raised(e) == [NoResult EXCEPT !.kind = "raise", !.error = e]

\* setTimeout(resolve, 3000)
PollInterval == 3000

\* a caller invokes client.waitForTranscript(id)
CallWaitForTranscript(id) ==
  /\ cpc \in {"idle", "returned", "raised"}
  /\ cid' = id
  /\ cpc' = "wait_loop"
  /\ cnet' = NoCall
  /\ timer' = 0
  /\ polls' = 0
  /\ slept' = FALSE
  /\ bodyUsed' = FALSE
  /\ result' = NoResult
  /\ UNCHANGED <<remote, hvars>>

\* top of `while (true)`: fetch(pollingEndpoint) is issued (lines 103-107)
Poll ==
  /\ cpc = "wait_loop"
  /\ cnet' = Call("poll", cid)
  /\ polls' = IF polls < MaxPolls THEN polls + 1 ELSE polls
  /\ slept' = FALSE
  /\ cpc' = "wait_await"
  /\ UNCHANGED <<remote, hvars, cid, timer, bodyUsed, result>>

\* a switch whose 'processing' case falls into the return
SwitchReturnsProcessing(status) ==
  CASE status = "queued" -> "sleep"
    [] status \in {"processing", "completed"} -> "return"
    [] OTHER -> "loop"

\* a switch whose 'completed' case does not return
SwitchWithoutReturn(status) ==
  CASE status \in {"queued", "processing"} -> "sleep"
    [] OTHER -> "loop"

\* a switch with a default case that returns what it got
SwitchDefaultReturns(status) ==
  CASE status \in {"queued", "processing"} -> "sleep"
    [] OTHER -> "return"

\* switch (transcript.status), lines 110-117
Switch(status) ==
  CASE status \in {"queued", "processing"} -> "sleep"
    [] status = "completed" -> "return"
    [] OTHER -> "loop"

\* the poll's body arrives: throwIfError, then the switch (lines 108-117)
PollResume ==
  /\ cpc = "wait_await"
  /\ cnet.replied
  /\ IF HasError(cnet.json)
       THEN /\ result' = Raised(ThrownError(cnet.json))
            /\ cpc' = "raised"
            /\ UNCHANGED timer
       ELSE CASE Switch(cnet.json.status) = "sleep" ->
                   /\ timer' = PollInterval
                   /\ cpc' = "wait_sleep"
                   /\ UNCHANGED result
              [] Switch(cnet.json.status) = "return" ->
                   /\ result' = Returned(cnet.json)
                   /\ cpc' = "returned"
                   /\ UNCHANGED timer
              [] OTHER ->
                   /\ cpc' = "wait_loop"
                   /\ UNCHANGED <<timer, result>>
  /\ UNCHANGED <<remote, hvars, cid, cnet, polls, slept, bodyUsed>>

\* the timer set at line 113 expires and the loop goes round
TimerExpires ==
  /\ cpc = "wait_sleep"
  /\ timer' = 0
  /\ slept' = TRUE
  /\ cpc' = "wait_loop"
  /\ UNCHANGED <<remote, hvars, cid, cnet, polls, bodyUsed, result>>

(***************************************************************************)
(* getSubtitles (src/src/assemblyai.ts, lines 127-145)                     *)
(***************************************************************************)

SrtText == "1 00:00:00,000 --> 00:00:02,000 hello world"
JsonErrorText == "{\"error\":\"transcript not found\"}"
JsonOtherText == "{\"message\":\"not ready\"}"
JsonNullText == "null"

\* raw bodies the subtitles endpoint can answer with
SubtitleRaws == {SrtText, JsonErrorText, JsonOtherText, JsonNullText}

SubtitleStatuses == {200, 404, 500}

ContentTypes == {"application/json", "application/json; charset=utf-8",
                 "text/plain", undefined}

\* response.headers.get('content-type')?.startsWith('application/json')
StartsWithJson(ctype) ==
  ctype \in {"application/json", "application/json; charset=utf-8"}

\* response.json(): the parsed object, JSON null, or a SyntaxError
JsonParse(raw) ==
  CASE raw = JsonErrorText ->
         [kind |-> "object", body |-> ErrorBody("transcript not found")]
    [] raw = JsonOtherText -> [kind |-> "object", body |-> EmptyBody]
    [] raw = JsonNullText -> [kind |-> "null", body |-> EmptyBody]
    [] OTHER -> [kind |-> "SyntaxError", body |-> EmptyBody]

\* response.statusText
StatusText(status) ==
  CASE status = 200 -> "OK"
    [] status = 404 -> "Not Found"
    [] status = 500 -> "Internal Server Error"

\* `Get Subtitle request returned status ${response.status} ${response.statusText}`
StatusMessage(status) ==
  "Get Subtitle request returned status " \o ToString(status) \o " "
    \o StatusText(status)

\* a caller invokes client.getSubtitles(id, format); its fetch is issued
CallGetSubtitles(id, format) ==
  /\ cpc \in {"idle", "returned", "raised"}
  /\ cid' = id
  /\ cnet' = Call("getSubtitles", format)
  /\ cpc' = "subs_await"
  /\ timer' = 0
  /\ polls' = 0
  /\ slept' = FALSE
  /\ bodyUsed' = FALSE
  /\ result' = NoResult
  /\ UNCHANGED <<remote, hvars>>

\* lines 133-141: the test of response.status
SubtitlesStatus ==
  /\ cpc = "subs_await"
  /\ cnet.replied
  /\ IF cnet.status # 200
       THEN IF StartsWithJson(cnet.ctype)
              THEN /\ cpc' = "subs_json"
                   /\ UNCHANGED result
              ELSE /\ result' = Raised(JsError("Error", StatusMessage(cnet.status)))
                   /\ cpc' = "raised"
       ELSE /\ cpc' = "subs_text"
            /\ UNCHANGED result
  /\ UNCHANGED <<remote, hvars, cid, cnet, timer, polls, slept, bodyUsed>>

\* lines 135-136: await response.json() consumes the body; throwIfError on
\* what was parsed.  `'error' in null` is a TypeError.  A body without an
\* error field falls out of the `if` to line 143.
SubtitlesJson ==
  /\ cpc = "subs_json"
  /\ bodyUsed' = TRUE
  /\ LET parsed == JsonParse(cnet.raw) IN
       CASE parsed.kind = "SyntaxError" ->
              /\ result' = Raised(JsError("SyntaxError", "Unexpected token"))
              /\ cpc' = "raised"
         [] parsed.kind = "null" ->
              /\ result' = Raised(JsError("TypeError", "Cannot use 'in' operator"))
              /\ cpc' = "raised"
         [] parsed.kind = "object" /\ HasError(parsed.body) ->
              /\ result' = Raised(ThrownError(parsed.body))
              /\ cpc' = "raised"
         [] OTHER ->
              /\ cpc' = "subs_text"
              /\ UNCHANGED result
  /\ UNCHANGED <<remote, hvars, cid, cnet, timer, polls, slept>>

\* lines 143-144: await response.text(); a body that was already read
\* rejects with a TypeError
SubtitlesText ==
  /\ cpc = "subs_text"
  /\ bodyUsed' = TRUE
  /\ IF bodyUsed
       THEN /\ result' = Raised(JsError("TypeError", "Body has already been used"))
            /\ cpc' = "raised"
       ELSE /\ result' = ReturnedText(cnet.raw)
            /\ cpc' = "returned"
  /\ UNCHANGED <<remote, hvars, cid, cnet, timer, polls, slept>>

(***************************************************************************)
(* The remote service: any answer the endpoints' shapes allow              *)
(***************************************************************************)

NoTranscript == ErrorBody("transcript not found")

\* POST {base}/upload answers
AnswerUpload ==
  /\ hnet.op = "uploadFile"
  /\ ~hnet.replied
  /\ \E b \in UploadBodies : hnet' = JsonReply(hnet, b)
  /\ UNCHANGED <<remote, hpc, req, uploadUrl, calls, settled, response, served, cvars>>

\* POST {base}/transcript answers with a transcript of any id, or an error
AnswerCreate ==
  /\ hnet.op = "createTranscript"
  /\ ~hnet.replied
  /\ \E b \in TranscriptBodies : hnet' = JsonReply(hnet, b)
  /\ UNCHANGED <<remote, hpc, req, uploadUrl, calls, settled, response, served, cvars>>

\* GET {base}/transcript/{id} answers the Worker with the transcript of that
\* id, or an error
AnswerGet ==
  /\ hnet.op = "getTranscript"
  /\ ~hnet.replied
  /\ \E b \in TranscriptBodiesOf({hnet.arg}) : hnet' = JsonReply(hnet, b)
  /\ UNCHANGED <<remote, hpc, req, uploadUrl, calls, settled, response, served, cvars>>

\* GET {base}/transcript/{id} answers a poll of waitForTranscript
AnswerPoll ==
  /\ cnet.op = "poll"
  /\ ~cnet.replied
  /\ \E b \in TranscriptBodiesOf({cnet.arg}) : cnet' = JsonReply(cnet, b)
  /\ UNCHANGED <<remote, hvars, cpc, cid, timer, polls, slept, bodyUsed, result>>

\* GET {base}/transcript/{id}/{srt|vtt} answers
AnswerSubtitles ==
  /\ cnet.op = "getSubtitles"
  /\ ~cnet.replied
  /\ \E st \in SubtitleStatuses, ct \in ContentTypes, raw \in SubtitleRaws :
       cnet' = [cnet EXCEPT !.replied = TRUE, !.status = st, !.ctype = ct,
                            !.raw = raw]
  /\ UNCHANGED <<remote, hvars, cpc, cid, timer, polls, slept, bodyUsed, result>>

Init ==
  /\ remote = NoTranscript
  /\ hpc = "idle"
  /\ req = NoRequest
  /\ hnet = NoCall
  /\ uploadUrl = undefined
  /\ calls = <<>>
  /\ settled = Pending
  /\ response = NoResponse
  /\ served = FALSE
  /\ cpc = "idle"
  /\ cid = undefined
  /\ cnet = NoCall
  /\ timer = 0
  /\ polls = 0
  /\ slept = FALSE
  /\ bodyUsed = FALSE
  /\ result = NoResult

Next ==
  \/ \E r \in Requests : Fetch(r)
  \/ UploadFile
  \/ CreateTranscript
  \/ Redirect
  \/ GetTranscript
  \/ Settle
  \/ \E id \in Ids : CallWaitForTranscript(id)
  \/ Poll
  \/ PollResume
  \/ TimerExpires
  \/ \E id \in Ids, format \in {"srt", "vtt"} : CallGetSubtitles(id, format)
  \/ SubtitlesStatus
  \/ SubtitlesJson
  \/ SubtitlesText
  \/ AnswerUpload
  \/ AnswerCreate
  \/ AnswerGet
  \/ AnswerPoll
  \/ AnswerSubtitles

Spec == Init /\ [][Next]_vars

(***************************************************************************)
(* The remote service and the browser of the documented flow: the          *)
(* transcript is created `queued`, moves forward to `processing` and       *)
(* `completed`, no answer is an error, and the browser follows the         *)
(* redirect and every Refresh header.                                      *)
(***************************************************************************)

\* what GET {base}/transcript/{id} answers for id
Snapshot(id) == IF remote.id = id THEN remote ELSE NoTranscript

\* queued -> processing -> completed; the text comes with `completed`
RemoteAdvance ==
  /\ \/ /\ remote.status = "queued"
        /\ remote' = [remote EXCEPT !.status = "processing"]
     \/ /\ remote.status = "processing"
        /\ \E t \in Texts \ {""} :
             remote' = [remote EXCEPT !.status = "completed", !.text = t]
  /\ UNCHANGED <<hvars, cvars>>

FlowAnswerUpload ==
  /\ hnet.op = "uploadFile"
  /\ ~hnet.replied
  /\ \E u \in UploadUrls : hnet' = JsonReply(hnet, UploadBody(u))
  /\ UNCHANGED <<remote, hpc, req, uploadUrl, calls, settled, response, served, cvars>>

FlowAnswerCreate ==
  /\ hnet.op = "createTranscript"
  /\ ~hnet.replied
  /\ \E i \in Ids : remote' = Transcript(i, "queued", "")
  /\ hnet' = JsonReply(hnet, remote')
  /\ UNCHANGED <<hpc, req, uploadUrl, calls, settled, response, served, cvars>>

FlowAnswerGet ==
  /\ hnet.op = "getTranscript"
  /\ ~hnet.replied
  /\ hnet' = JsonReply(hnet, Snapshot(hnet.arg))
  /\ UNCHANGED <<remote, hpc, req, uploadUrl, calls, settled, response, served, cvars>>

FlowAnswerPoll ==
  /\ cnet.op = "poll"
  /\ ~cnet.replied
  /\ cnet' = JsonReply(cnet, Snapshot(cnet.arg))
  /\ UNCHANGED <<remote, hvars, cpc, cid, timer, polls, slept, bodyUsed, result>>

\* the browser submits the upload form once
BrowserSubmit ==
  /\ remote = NoTranscript
  /\ hpc = "idle"
  /\ \E f \in {"audio.mp3", "video.mp4"} :
       Fetch(Request("POST", "/upload-file", undefined, "multipart", f))

\* the browser follows the 303 to its Location
BrowserRedirect ==
  /\ hpc = "responded"
  /\ response.kind = "redirect"
  /\ \E i \in Ids :
       /\ response.location = TranscriptUrl(i)
       /\ Fetch(Request("GET", "/transcript/:id", i, undefined, undefined))

\* the browser obeys a Refresh header and asks for the same page again
BrowserRefresh ==
  /\ hpc = "responded"
  /\ response.refresh # undefined
  /\ Fetch(req)

\* the user reloads a page that carries no Refresh header
BrowserReload ==
  /\ hpc = "responded"
  /\ response.kind = "text"
  /\ response.refresh = undefined
  /\ Fetch(req)

\* a caller waits for the transcript the flow created
FlowCallWaitForTranscript ==
  /\ remote # NoTranscript
  /\ CallWaitForTranscript(remote.id)

FlowNext ==
  \/ BrowserSubmit
  \/ BrowserRedirect
  \/ BrowserRefresh
  \/ BrowserReload
  \/ UploadFile
  \/ CreateTranscript
  \/ Redirect
  \/ GetTranscript
  \/ Settle
  \/ FlowCallWaitForTranscript
  \/ Poll
  \/ PollResume
  \/ TimerExpires
  \/ FlowAnswerUpload
  \/ FlowAnswerCreate
  \/ FlowAnswerGet
  \/ FlowAnswerPoll
  \/ RemoteAdvance

\* The event loop runs every continuation that is ready and fires every
\* pending timer; the remote answers every call and finishes the job; the
\* browser follows redirects and Refresh headers.  Nothing obliges a caller
\* to start a call or a user to submit or reload.
FlowFairness ==
  /\ WF_vars(UploadFile) /\ WF_vars(CreateTranscript) /\ WF_vars(Redirect)
  /\ WF_vars(GetTranscript) /\ WF_vars(Settle)
  /\ WF_vars(Poll) /\ WF_vars(PollResume) /\ WF_vars(TimerExpires)
  /\ WF_vars(FlowAnswerUpload) /\ WF_vars(FlowAnswerCreate)
  /\ WF_vars(FlowAnswerGet) /\ WF_vars(FlowAnswerPoll)
  /\ WF_vars(RemoteAdvance)
  /\ WF_vars(BrowserRedirect) /\ WF_vars(BrowserRefresh)

FlowSpec == Init /\ [][FlowNext]_vars /\ FlowFairness

(***************************************************************************)
(* Properties                                                              *)
(***************************************************************************)

\* the caller is inside, or has just left, waitForTranscript
InWait == cnet.op = "poll"

\* the answer to the poll in flight has arrived and the loop resumes with it
PollResumes == cpc = "wait_await" /\ cnet.replied /\ cpc' # cpc

\* C1: whenever waitForTranscript has returned, what it returned has status
\* 'completed'; and a poll whose answer reports an error ends the call with
\* a raise at that very iteration: no return, no sleep, no further poll.
C1_WaitReturnsOnlyCompleted ==
  /\ [](InWait /\ cpc = "returned" =>
          /\ result.kind = "return"
          /\ result.transcript.status = "completed")
  /\ [][PollResumes /\ Truthy(cnet.json.error) =>
          /\ cpc' = "raised"
          /\ result'.kind = "raise"
          /\ cnet' = cnet]_vars

\* a poll answered with an error next to status 'completed' was raised
C1_Witness ==
  /\ InWait
  /\ cpc = "raised"
  /\ cnet.json.status = "completed"
  /\ polls > 1

\* the Worker's handler has left the client call whose answer hnet holds
HandlerLeftCall == hpc \in {"settle", "responded"} /\ hnet.replied

\* C2: in uploadFile, createTranscript, getTranscript and every poll of
\* waitForTranscript, a parsed body with a truthy `error` makes the operation
\* raise an error whose message is that field's value, and yield no value
\* (no upload URL, no redirect or rendering, no returned transcript).
C2_TruthyErrorRaises ==
  /\ (HandlerLeftCall /\ Truthy(hnet.json.error) =>
        /\ hnet.op \in {"uploadFile", "createTranscript", "getTranscript"}
        /\ settled.kind = "reject"
        /\ settled.error.message = hnet.json.error
        /\ settled.response = NoResponse
        /\ uploadUrl = (IF hnet.op = "createTranscript" THEN hnet.arg ELSE undefined))
  /\ (InWait /\ cnet.replied /\ cpc # "wait_await" /\ Truthy(cnet.json.error) =>
        /\ cpc = "raised"
        /\ result.kind = "raise"
        /\ result.error.message = cnet.json.error
        /\ result.transcript = EmptyBody)

\* uploadFile raised "invalid api key" although the body also had an upload_url
C2_Witness ==
  /\ hpc = "settle"
  /\ hnet.op = "uploadFile"
  /\ hnet.json.upload_url # undefined
  /\ settled.error.message = "invalid api key"

\* the GET /transcript/:id handler has answered with what getTranscript returned
Rendered ==
  /\ hpc = "responded"
  /\ req.route = "/transcript/:id"
  /\ hnet.json.error = undefined

\* C3: GET /transcript/:id answers a 'completed' transcript with its text and
\* no Refresh header, and a transcript of any other status with exactly the
\* status string and a Refresh header; the text of a transcript that is not
\* 'completed' is not what is rendered.
C3_RenderByStatus ==
  Rendered =>
    /\ response.kind = "text"
    /\ IF hnet.json.status = "completed"
         THEN /\ response.body = hnet.json.text
              /\ response.refresh = undefined
         ELSE /\ response.body = hnet.json.status
              /\ response.refresh # undefined
              /\ response.body # hnet.json.text

\* a 'processing' transcript that already carries text was answered "processing"
C3_Witness ==
  /\ Rendered
  /\ hnet.json.status = "processing"
  /\ hnet.json.text # ""
  /\ response.body = "processing"

\* the handler of POST /upload-file is running or has answered
InUpload == req.route = "/upload-file"

\* C4: POST /upload-file calls uploadFile, then createTranscript: the create
\* call is issued only on an upload answer without error and carries the
\* upload_url of that answer; the 303 redirect is produced only on a create
\* answer without error and targets /transcript/{id} of that answer; when
\* uploadFile raises there is no create call and no redirect.
C4_UploadThenCreateThenRedirect ==
  /\ [](InUpload =>
          /\ Len(calls) <= 2
          /\ (Len(calls) >= 1 => calls[1] = [op |-> "uploadFile", arg |-> req.file])
          /\ (Len(calls) = 2 => calls[2] = [op |-> "createTranscript", arg |-> uploadUrl])
          /\ (settled.kind = "resolve" \/ response.kind = "redirect" =>
                /\ Len(calls) = 2
                /\ hnet.op = "createTranscript"
                /\ hnet.replied
                /\ hnet.json.error = undefined
                /\ settled.response.kind = "redirect"
                /\ settled.response.status = 303
                /\ settled.response.location =
                     "https://worker.example/transcript/" \o hnet.json.id)
          /\ (response.kind \notin {"none", "error"} => response = settled.response)
          /\ (hnet.op = "uploadFile" /\ settled.kind = "reject" =>
                /\ Len(calls) = 1
                /\ response.kind \in {"none", "error"}))
  /\ [][hpc = "uploadFile" /\ hpc' = "createTranscript" =>
          /\ hnet.replied
          /\ hnet.json.error = undefined
          /\ hnet' = Call("createTranscript", hnet.json.upload_url)]_vars

\* the browser was redirected to the page of the transcript that was created
C4_Witness ==
  /\ InUpload
  /\ hpc = "responded"
  /\ response.status = 303
  /\ response.location = "https://worker.example/transcript/id2"
  /\ calls[2].arg = "https://cdn.assemblyai.com/upload/u2"

\* an error was raised while req was handled
HandlerRaised ==
  \/ hnet.replied /\ hnet.json.error # undefined
  \/ InUpload /\ (req.form # "multipart" \/ req.file = "null")

\* C5: when an error is raised while a request is handled (an error body from
\* the remote, a body that is not a form, a form without file), the request is
\* still answered, and the answer is the error response: not a redirect, no
\* transcript text, no status string, no Refresh header.
C5_ErrorsBecomeErrorResponse ==
  hpc = "responded" /\ HandlerRaised =>
    /\ response.kind = "error"
    /\ response.status >= 500
    /\ response.location = undefined
    /\ response.body = undefined
    /\ response.refresh = undefined

\* GET /transcript/:id got "transcript not found" next to a completed text
C5_Witness ==
  /\ hpc = "responded"
  /\ req.route = "/transcript/:id"
  /\ hnet.json.error = "transcript not found"
  /\ hnet.json.status = "completed"
  /\ hnet.json.text # ""
  /\ response.kind = "error"

\* getSubtitles has returned or raised
SubtitlesDone == cnet.op = "getSubtitles" /\ cpc \in {"returned", "raised"}

\* C6: getSubtitles returns only on a 200 answer, and then the raw text of
\* the answer; on any other status it raises: with the error message embedded
\* in the body when the content type is JSON (and the body is a JSON object),
\* with the generic status-code message otherwise.
C6_SubtitlesAsClaimed ==
  SubtitlesDone =>
    IF cnet.status = 200
      THEN result = ReturnedText(cnet.raw)
      ELSE /\ result.kind = "raise"
           /\ result.text = undefined
           /\ IF StartsWithJson(cnet.ctype)
                THEN JsonParse(cnet.raw).kind = "object" =>
                       /\ result.error.name = "Error"
                       /\ result.error.message # undefined
                       /\ result.error.message = JsonParse(cnet.raw).body.error
                ELSE result.error = JsError("Error", StatusMessage(cnet.status))

\* C7: in the documented flow (queued -> processing -> completed, no error)
\* a started waitForTranscript eventually returns; a poll that observes
\* 'completed' makes it return that very snapshot (so it returns on the first
\* such poll); and once it has returned it issues no further poll.
C7_WaitReturnsAtFirstCompleted ==
  /\ (cpc = "wait_loop") ~> (cpc = "returned" /\ result.transcript.status = "completed")
  /\ [][PollResumes /\ cnet.json.status = "completed" =>
          /\ cpc' = "returned"
          /\ result' = Returned(cnet.json)]_vars
  /\ [][PollResumes /\ cnet.json.status # "completed" => cpc' # "returned"]_vars
  /\ [][InWait /\ cpc = "returned" /\ cpc' = "returned" =>
          /\ cnet' = cnet
          /\ polls' = polls]_vars

\* returned at the third poll, after 'queued' and 'processing' were waited out
C7_Witness ==
  /\ InWait
  /\ cpc = "returned"
  /\ polls = 3
  /\ result.transcript.text # ""

\* waitForTranscript issues a poll that is not the first of the call
PollsAgain == cpc = "wait_loop" /\ polls > 0 /\ cpc' = "wait_await"

\* C8: between two consecutive polls of a waitForTranscript call a timer has
\* expired, whatever status the earlier poll's answer carried.
C8_SleepBetweenPolls == [][PollsAgain => slept]_vars

\* C9: waitForTranscript ends only on 'completed' or on an error body: it has
\* returned only on a 'completed' answer and raised only on an answer with an
\* error field; an answer without error and with any other status leads,
\* after at most one sleep, to the next poll, which no attempt count forbids.
C9_WaitEndsOnlyOnCompletedOrError ==
  /\ [](InWait /\ cpc = "returned" =>
          cnet.json.status = "completed" /\ cnet.json.error = undefined)
  /\ [](InWait /\ cpc = "raised" => cnet.json.error # undefined)
  /\ [](cpc = "wait_loop" => ENABLED Poll)
  /\ [](cpc = "wait_sleep" => ENABLED TimerExpires)
  /\ [][PollResumes /\ cnet.json.error = undefined /\ cnet.json.status # "completed" =>
          /\ cpc' \in {"wait_sleep", "wait_loop"}
          /\ result' = NoResult]_vars
  /\ [][cpc = "wait_sleep" /\ cpc' # cpc => cpc' = "wait_loop"]_vars
  /\ [][cpc = "wait_loop" /\ cpc' # cpc =>
          cpc' = "wait_await" /\ cnet' = Call("poll", cid)]_vars

\* back at the top of the loop after MaxPolls answers, the last one of a
\* status the switch does not know
C9_Witness ==
  /\ cpc = "wait_loop"
  /\ cnet.json.status = "throttled"
  /\ polls = MaxPolls
  /\ result = NoResult

\* the Worker has answered a GET /transcript/:id
Answered == hpc = "responded" /\ req.route = "/transcript/:id"

\* C10: in the documented flow every GET /transcript/{id} before completion
\* is answered with the status and a Refresh header; a browser that was
\* redirected and follows each Refresh eventually gets the transcript text;
\* and from the first text answer on, every answer is the text without
\* Refresh.
C10_FlowReachesTextAndStays ==
  /\ [](Answered /\ hnet.json.status # "completed" =>
          /\ response = text(hnet.json.status, RefreshDelay)
          /\ response.body \in {"queued", "processing"})
  /\ (hpc = "responded" /\ response.kind = "redirect")
       ~> (Answered /\ response = text(remote.text, undefined)
                    /\ remote.status = "completed")
  /\ [][served /\ hpc' = "responded" =>
          /\ response'.kind = "text"
          /\ response'.refresh = undefined
          /\ response'.body = remote.text
          /\ response'.body \notin Statuses]_vars

\* the text page was served, reloaded, and served again
C10_Witness ==
  /\ served
  /\ hpc = "getTranscript"
  /\ hnet.replied
  /\ hnet.json.status = "completed"

====
